---- MODULE Spec2Model ----
(***************************************************************************)
(* Model of scripts/seed_test_patterns.py: the GlowBlaster seed script.    *)
(* main() parses --base-url and --cookie, announces the number of records, *)
(* POSTs every record of TEST_PATTERNS through create_pattern(), counts    *)
(* the calls that returned True and prints the tally.                      *)
(*                                                                         *)
(* The remote API is the environment: every call of requests.post ends in  *)
(* one of the outcomes of Outcomes (an exception raised by the library, a  *)
(* body that is not JSON, a JSON value that is not an object, or a JSON    *)
(* object with or without the keys "success" and "error").                 *)
(***************************************************************************)
EXTENDS Integers, Sequences, FiniteSets, TLC

VARIABLES
    argv,           \* the command line: [base_url, cookie], each a sequence of 0 or 1 values
    patterns,       \* the module global TEST_PATTERNS
    pc,             \* position of the process
    args,           \* result of parser.parse_args(): <<>> before, <<[base_url, cookie]>> after
    idx,            \* number of records the for loop has taken from the list
    success_count,  \* main's counter
    out,            \* lines written to stdout, in order
    posts,          \* every call of requests.post made so far, in order
    outstanding,    \* indices of the calls issued and not yet returned
    responses,      \* how each returned call ended (the environment's answers), in order
    exit_code       \* <<>> while running, <<c>> once the process ended with status c

vars ==
    <<argv, patterns, pc, args, idx, success_count, out, posts, outstanding, responses,
      exit_code>>

(***************************************************************************)
(* The literal data set.                                                   *)
(***************************************************************************)
LclSolid(name, color) ==
    "effect: solid\nname: \"" \o name \o "\"\n\nappearance:\n  color: " \o color
        \o "\n  brightness: bright\n\ntiming:\n  speed: medium"

LclChase ==
    "effect: chase\nname: \"Red, White, Blue\"\n\nbehavior:\n  head_size: medium\n"
        \o "  tail_length: medium\n  tail_style: fade\n  count: triple\n\n"
        \o "appearance:\n  colors:\n    - red\n    - white\n    - blue\n"
        \o "  brightness: bright\n\ntiming:\n  speed: medium\n\n"
        \o "spatial:\n  direction: forward"

TEST_PATTERNS ==
    << [name |-> "All Red",          lcl |-> LclSolid("All Red", "red")],
       [name |-> "All Blue",         lcl |-> LclSolid("All Blue", "blue")],
       [name |-> "All Green",        lcl |-> LclSolid("All Green", "green")],
       [name |-> "All White",        lcl |-> LclSolid("All White", "white")],
       [name |-> "Red, White, Blue", lcl |-> LclChase] >>

(***************************************************************************)
(* JSON values as the response decoder returns them, and the two Python    *)
(* conversions the script applies to them: truth value and str().          *)
(***************************************************************************)
JNull      == [t |-> "null"]
JBool(b)   == [t |-> "bool", b |-> b]
JNum(n)    == [t |-> "num", n |-> n]
JStr(s)    == [t |-> "str", s |-> s]
JList(xs)  == [t |-> "list", xs |-> xs]
JDict(d)   == [t |-> "dict", d |-> d]

\* Faulty variant: `data.get("success") is True` instead of the truth value.
TruthyIsTrue(v) == v = JBool(TRUE)

\* bool(v): None, False, 0, "" and empty containers are falsy.
Truthy(v) ==
    CASE v.t = "null" -> FALSE
      [] v.t = "bool" -> v.b
      [] v.t = "num"  -> v.n # 0
      [] v.t = "str"  -> v.s # ""
      [] v.t = "list" -> v.xs # <<>>
      [] v.t = "dict" -> DOMAIN v.d # {}

\* str(v) as an f-string renders it (scalars, which is what the fields hold here).
PyStr(v) ==
    CASE v.t = "null" -> "None"
      [] v.t = "bool" -> (IF v.b THEN "True" ELSE "False")
      [] v.t = "num"  -> ToString(v.n)
      [] v.t = "str"  -> v.s

\* type(v).__name__
PyTypeName(v) ==
    CASE v.t = "null" -> "NoneType"
      [] v.t = "bool" -> "bool"
      [] v.t = "num"  -> "int"
      [] v.t = "str"  -> "str"
      [] v.t = "list" -> "list"
      [] v.t = "dict" -> "dict"

\* dict.get(key, default)
DictGet(d, key, default) == IF key \in DOMAIN d THEN d[key] ELSE default

(***************************************************************************)
(* The environment: what one call of requests.post can end in.             *)
(***************************************************************************)
OutRaise(cls, msg) == [kind |-> "raise", cls |-> cls, msg |-> msg]
OutText(text)      == [kind |-> "text", text |-> text]
OutJson(v)         == [kind |-> "json", data |-> v]

Outcomes ==
    { OutRaise("ConnectionError", "Connection refused"),
      OutRaise("ReadTimeout", "Read timed out."),
      OutText("<html>502 Bad Gateway</html>"),
      OutJson(JList(<<>>)),
      OutJson(JDict(<<>>)),
      OutJson(JDict([error |-> JStr("unauthorized")])),
      OutJson(JDict([success |-> JBool(FALSE), error |-> JStr("duplicate")])),
      OutJson(JDict([success |-> JBool(TRUE)])),
      OutJson(JDict([success |-> JNum(1), error |-> JStr("ignored")])),
      OutJson(JDict([success |-> JNull, error |-> JNull])) }

\* Command lines: both options given, or one of the required options missing.
Argvs ==
    { [base_url |-> <<"https://app.example.com">>, cookie |-> <<"session=abc">>],
      [base_url |-> <<"http://localhost:8080">>,   cookie |-> <<"session=xyz; theme=dark">>],
      [base_url |-> <<>>,                          cookie |-> <<"session=abc">>],
      [base_url |-> <<"http://localhost:8080">>,   cookie |-> <<>>] }

(***************************************************************************)
(* create_pattern                                                          *)
(***************************************************************************)
Url(base_url) == base_url \o "/api/glowblaster/patterns"

Headers(cookie) == ("Content-Type" :> "application/json") @@ ("Cookie" :> cookie)

\* Faulty variant: the name sent in place of the lcl text.
PayloadNameForLcl(pattern) == [name |-> pattern.name, lcl |-> pattern.name]

Payload(pattern) == [name |-> pattern.name, lcl |-> pattern.lcl]

\* The arguments of requests.post(url, headers=headers, json=payload).
Request(base_url, cookie, pattern) ==
    [method |-> "POST", url |-> Url(base_url), headers |-> Headers(cookie),
     json |-> Payload(pattern)]

Returned(lines, ret) == [raised |-> FALSE, cls |-> "", msg |-> "", lines |-> lines, ret |-> ret]
Raised(cls, msg)     == [raised |-> TRUE, cls |-> cls, msg |-> msg, lines |-> <<>>, ret |-> FALSE]

CreatedLine(pattern)      == "  Created: " \o pattern.name
FailedLine(pattern, err)  == "  Failed: " \o pattern.name \o " - " \o err
ErrorLine(pattern, msg)   == "  Error: " \o pattern.name \o " - " \o msg

\* Faulty variant: data.get('error') without the default.
BranchNoDefault(pattern, d) ==
    IF Truthy(DictGet(d, "success", JNull))
    THEN Returned(<<CreatedLine(pattern)>>, TRUE)
    ELSE Returned(<<FailedLine(pattern, PyStr(DictGet(d, "error", JNull)))>>, FALSE)

\* if data.get("success"): ... else: ...
Branch(pattern, d) ==
    IF Truthy(DictGet(d, "success", JNull))
    THEN Returned(<<CreatedLine(pattern)>>, TRUE)
    ELSE Returned(<<FailedLine(pattern, PyStr(DictGet(d, "error", JStr("Unknown error"))))>>,
                  FALSE)

\* The body of the try block, given how the call of requests.post ended.
TryBody(pattern, outcome) ==
    CASE outcome.kind = "raise" -> Raised(outcome.cls, outcome.msg)
      [] outcome.kind = "text"  ->
            Raised("JSONDecodeError", "Expecting value: line 1 column 1 (char 0)")
      [] outcome.kind = "json"  ->
            IF outcome.data.t = "dict"
            THEN Branch(pattern, outcome.data.d)
            ELSE Raised("AttributeError",
                        "'" \o PyTypeName(outcome.data) \o "' object has no attribute 'get'")

\* The classes `except Exception` does not catch.
BaseExceptionsOnly == {"KeyboardInterrupt", "SystemExit", "GeneratorExit"}

\* Faulty variant: `except requests.RequestException`, which lets the decoding
\* errors through.
HandlerRequestsOnly(pattern, r) ==
    IF r.raised /\ r.cls \in {"ConnectionError", "ReadTimeout"}
    THEN Returned(<<ErrorLine(pattern, r.msg)>>, FALSE)
    ELSE r

\* Faulty variant: the exception swallowed without its line.
HandlerSilent(pattern, r) ==
    IF r.raised /\ r.cls \notin BaseExceptionsOnly
    THEN Returned(<<>>, FALSE)
    ELSE r

\* except Exception as e: print(...); return False
Handler(pattern, r) ==
    IF r.raised /\ r.cls \notin BaseExceptionsOnly
    THEN Returned(<<ErrorLine(pattern, r.msg)>>, FALSE)
    ELSE r

create_pattern(pattern, outcome) == Handler(pattern, TryBody(pattern, outcome))

(***************************************************************************)
(* main                                                                    *)
(***************************************************************************)
AnnounceLine(n) == "Seeding " \o ToString(n) \o " test patterns..."

TallyLine(s, n) == "Complete: " \o ToString(s) \o "/" \o ToString(n) \o " patterns created"

\* Faulty variant: every attempt counted.
CountAlways(count, ret) == count + 1

\* if create_pattern(...): success_count += 1
Count(count, ret) == IF ret THEN count + 1 ELSE count

\* Faulty variant: the loop stops one record early.
ExhaustedOffByOne(i, n) == i >= n - 1

\* The list iterator of the for loop is exhausted.
Exhausted(i, n) == i >= n

Parsed == args # <<>>

\* parser.parse_args() with both required options on the command line.
ParseArgs ==
    /\ pc = "parse"
    /\ argv.base_url # <<>> /\ argv.cookie # <<>>
    /\ args' = << [base_url |-> argv.base_url[1], cookie |-> argv.cookie[1]] >>
    /\ pc' = "announce"
    /\ UNCHANGED <<argv, patterns, idx, success_count, out, posts, outstanding, responses,
                   exit_code>>

\* parser.parse_args() with a required option missing: argparse prints the usage
\* to stderr and raises SystemExit(2).
ParseArgsError ==
    /\ pc = "parse"
    /\ (argv.base_url = <<>> \/ argv.cookie = <<>>)
    /\ pc' = "usage"
    /\ exit_code' = <<2>>
    /\ UNCHANGED <<argv, patterns, args, idx, success_count, out, posts, outstanding,
                   responses>>

\* print(f"Seeding ..."); print(); success_count = 0
Announce ==
    /\ pc = "announce"
    /\ out' = out \o <<AnnounceLine(Len(patterns)), "">>
    /\ success_count' = 0
    /\ pc' = "loop"
    /\ UNCHANGED <<argv, patterns, args, idx, posts, outstanding, responses, exit_code>>

\* Faulty variant: the call is issued and not awaited.
IssuePostNoWait ==
    /\ pc = "loop"
    /\ idx < Len(patterns)
    /\ idx' = idx + 1
    /\ posts' = Append(posts, Request(args[1].base_url, args[1].cookie, patterns[idx + 1]))
    /\ outstanding' = outstanding \cup {Len(posts) + 1}
    /\ UNCHANGED <<argv, patterns, pc, args, success_count, out, responses, exit_code>>

\* The for loop takes the next record and create_pattern calls requests.post.
IssuePost ==
    /\ pc = "loop"
    /\ ~Exhausted(idx, Len(patterns))
    /\ idx' = idx + 1
    /\ posts' = Append(posts, Request(args[1].base_url, args[1].cookie, patterns[idx + 1]))
    /\ outstanding' = outstanding \cup {Len(posts) + 1}
    /\ pc' = "await"
    /\ UNCHANGED <<argv, patterns, args, success_count, out, responses, exit_code>>

\* requests.post returns or raises; create_pattern prints its line and returns,
\* and main counts the result. An exception that leaves create_pattern leaves
\* main too: the interpreter prints the traceback and exits with status 1.
ReceiveOutcome(outcome) ==
    /\ pc = "await"
    /\ LET r == create_pattern(patterns[idx], outcome) IN
         /\ out' = out \o r.lines
         /\ IF r.raised
            THEN /\ pc' = "crashed"
                 /\ exit_code' = <<1>>
                 /\ UNCHANGED success_count
            ELSE /\ pc' = "loop"
                 /\ success_count' = Count(success_count, r.ret)
                 /\ UNCHANGED exit_code
    /\ outstanding' = outstanding \ {Len(posts)}
    /\ responses' = Append(responses, outcome)
    /\ UNCHANGED <<argv, patterns, args, idx, posts>>

\* Faulty variant: a nonzero exit status when a record failed.
FinishExitOnFailure ==
    /\ pc = "loop"
    /\ idx >= Len(patterns)
    /\ out' = out \o <<"", TallyLine(success_count, Len(patterns))>>
    /\ pc' = "done"
    /\ exit_code' = IF success_count = Len(patterns) THEN <<0>> ELSE <<1>>
    /\ UNCHANGED <<argv, patterns, args, idx, success_count, posts, outstanding, responses>>

\* Faulty variant: no tally when there was nothing to attempt.
FinishSilentWhenEmpty ==
    /\ pc = "loop"
    /\ idx >= Len(patterns)
    /\ out' = IF idx = 0 THEN out ELSE out \o <<"", TallyLine(success_count, Len(patterns))>>
    /\ pc' = "done"
    /\ exit_code' = <<0>>
    /\ UNCHANGED <<argv, patterns, args, idx, success_count, posts, outstanding, responses>>

\* print(); print(f"Complete: ..."); main returns and the process exits 0.
Finish ==
    /\ pc = "loop"
    /\ Exhausted(idx, Len(patterns))
    /\ out' = out \o <<"", TallyLine(success_count, Len(patterns))>>
    /\ pc' = "done"
    /\ exit_code' = <<0>>
    /\ UNCHANGED <<argv, patterns, args, idx, success_count, posts, outstanding, responses>>

Next ==
    \/ ParseArgs
    \/ ParseArgsError
    \/ Announce
    \/ IssuePost
    \/ \E outcome \in Outcomes : ReceiveOutcome(outcome)
    \/ Finish

InitWith(list) ==
    /\ argv \in Argvs
    /\ patterns = list
    /\ pc = "parse"
    /\ args = <<>>
    /\ idx = 0
    /\ success_count = 0
    /\ out = <<>>
    /\ posts = <<>>
    /\ outstanding = {}
    /\ responses = <<>>
    /\ exit_code = <<>>

\* The script as written: the list is the literal TEST_PATTERNS.
Init == InitWith(TEST_PATTERNS)

Spec == Init /\ [][Next]_vars

\* The loop of main over any short list of records (TEST_PATTERNS is a module
\* global that main reads at run time).
MaxRecords == 2

Lists == UNION { [1..k -> {TEST_PATTERNS[i] : i \in 1..Len(TEST_PATTERNS)}] : k \in 0..MaxRecords }

InitLists == \E list \in Lists : InitWith(list)

SpecLists == InitLists /\ [][Next]_vars

(***************************************************************************)
(* Vocabulary of the properties, stated on the observable state only:      *)
(* stdout, the calls made, the answers received.                           *)
(***************************************************************************)
StartsWith(s, p) == Len(s) >= Len(p) /\ SubSeq(s, 1, Len(p)) = p

Last(seq) == seq[Len(seq)]

\* Python's falsy JSON values.
Falsy == {JNull, JBool(FALSE), JNum(0), JStr(""), JList(<<>>), JDict(<<>>)}

IsObject(o)  == o.kind = "json" /\ o.data.t = "dict"
\* The answer is a JSON object with a truthy `success`.
Accepted(o)  == IsObject(o) /\ "success" \in DOMAIN o.data.d /\ o.data.d.success \notin Falsy
\* The answer is a JSON object whose `success` is absent or falsy.
Rejected(o)  == IsObject(o) /\ ~Accepted(o)
\* The call raised, or its body cannot be used as a JSON object.
Excepted(o)  == ~IsObject(o)

Successes == Cardinality({k \in 1..Len(responses) : Accepted(responses[k])})

\* The line of the k-th record: after the announcement and the empty line.
LineOf(k) == out[2 + k]

AllFive(P(_)) == Len(responses) = 5 /\ \A k \in 1..5 : P(responses[k])

\* C1: in a run of main every record of TEST_PATTERNS is POSTed exactly once, in
\* list order, whatever the calls end in: the calls made are always the first
\* records of the list, no record twice, and when main returns there are 5.
C1_EveryRecordPostedOnce ==
    /\ Len(posts) <= Len(TEST_PATTERNS)
    /\ \A k \in 1..Len(posts) :
          /\ posts[k].method = "POST"
          /\ posts[k].json.name = TEST_PATTERNS[k].name
          /\ \A j \in 1..(k - 1) : posts[j].json # posts[k].json
    /\ pc = "done" => Len(posts) = 5 /\ Len(TEST_PATTERNS) = 5

\* A full run with an exception, a rejection and a success among the answers.
C1_Witness ==
    /\ pc = "done" /\ Len(posts) = 5
    /\ Excepted(responses[1]) /\ Rejected(responses[2]) /\ Accepted(responses[3])

\* C2: a call that raises (network failure, timeout, a body that is not JSON or
\* not a JSON object) is caught in create_pattern: its line is
\* "  Error: <name> - <exception message>", it is not counted, the process does
\* not crash, and the loop goes on to the remaining records.
C2_ExceptionContained ==
    /\ pc # "crashed"
    /\ \A k \in 1..Len(responses) :
          Excepted(responses[k]) =>
             /\ Len(out) >= 2 + k
             /\ StartsWith(LineOf(k), "  Error: " \o patterns[k].name \o " - ")
             /\ responses[k].kind = "raise" =>
                   LineOf(k) = "  Error: " \o patterns[k].name \o " - " \o responses[k].msg
    /\ success_count <= Cardinality({k \in 1..Len(responses) : ~Excepted(responses[k])})
    /\ (pc = "loop" /\ Len(responses) < Len(patterns)) => ENABLED IssuePost
    /\ pc = "done" => Len(posts) = Len(patterns)

\* The first call raised, the second returned a body that is not JSON, the third
\* a JSON list, and all five records were attempted.
C2_Witness ==
    /\ pc = "done" /\ Len(posts) = 5 /\ Len(responses) = 5
    /\ responses[1].kind = "raise" /\ responses[2].kind = "text"
    /\ responses[3].kind = "json" /\ Excepted(responses[3])
    /\ LineOf(1) = "  Error: All Red - Connection refused"
    /\ Accepted(responses[5]) /\ success_count = 1

\* C3 as the spec states it: the final line printed is
\* "<successes>/<total> patterns created".
C3_TallyLineAsStated ==
    pc = "done" =>
       Last(out) = ToString(Successes) \o "/" \o ToString(Len(patterns)) \o " patterns created"

\* C3, amended: once every record is attempted the final line printed is
\* "Complete: <successes>/<total> patterns created", <successes> the number of
\* answers that are JSON objects with a truthy `success`, <total> the number of
\* records; with five {"success": true} it is "Complete: 5/5 patterns created".
C3_TallyLine ==
    pc = "done" =>
       /\ Len(responses) = Len(patterns)
       /\ Last(out) = "Complete: " \o ToString(Successes) \o "/" \o ToString(Len(patterns))
                         \o " patterns created"
       /\ AllFive(Accepted) => Last(out) = "Complete: 5/5 patterns created"

\* Every call returned {"success": true}.
C3_Witness ==
    /\ pc = "done"
    /\ AllFive(LAMBDA o : o = OutJson(JDict([success |-> JBool(TRUE)])))
    /\ Last(out) = "Complete: 5/5 patterns created"

\* What the script prints for the `error` field of a rejected answer.
ErrorText(d) ==
    IF "error" \notin DOMAIN d THEN "Unknown error"
    ELSE IF d.error.t = "str" THEN d.error.s
    ELSE IF d.error = JNull THEN "None"
    ELSE "?"

\* C4: an answer that is a JSON object with `success` absent or falsy is a
\* failure: its line is "  Failed: <name> - <error>", <error> the `error` field
\* if present and "Unknown error" otherwise; it is not counted in the numerator
\* of the tally and is counted in its denominator.
C4_RejectionReported ==
    /\ \A k \in 1..Len(responses) :
          Rejected(responses[k]) =>
             /\ Len(out) >= 2 + k
             /\ LineOf(k) = "  Failed: " \o patterns[k].name \o " - "
                               \o ErrorText(responses[k].data.d)
             /\ responses[k].data.d = [success |-> JBool(FALSE), error |-> JStr("duplicate")]
                   => LineOf(k) = "  Failed: " \o patterns[k].name \o " - duplicate"
    /\ success_count <= Cardinality({k \in 1..Len(responses) : ~Rejected(responses[k])})
    /\ pc = "done" =>
          \E s \in 0..(Len(responses) - Cardinality({k \in 1..Len(responses) :
                                                       Rejected(responses[k])})) :
             Last(out) = "Complete: " \o ToString(s) \o "/" \o ToString(Len(responses))
                            \o " patterns created"

\* {"success": false, "error": "duplicate"} for the first record, {} for the
\* second, and the rest created.
C4_Witness ==
    /\ pc = "done" /\ Len(responses) = 5
    /\ responses[1] = OutJson(JDict([success |-> JBool(FALSE), error |-> JStr("duplicate")]))
    /\ LineOf(1) = "  Failed: All Red - duplicate"
    /\ responses[2] = OutJson(JDict(<<>>))
    /\ LineOf(2) = "  Failed: All Blue - Unknown error"
    /\ Last(out) = "Complete: 3/5 patterns created"

\* C5: the POST of every record goes to "{base_url}/api/glowblaster/patterns"
\* with the header Cookie equal to the cookie of the command line and the JSON
\* body {"name": record.name, "lcl": record.lcl}, no other key, both values
\* unmodified; TEST_PATTERNS is never changed.
C5_RequestAsSpecified ==
    /\ patterns = TEST_PATTERNS
    /\ \A k \in 1..Len(posts) :
          /\ posts[k].method = "POST"
          /\ posts[k].url = argv.base_url[1] \o "/api/glowblaster/patterns"
          /\ posts[k].headers["Cookie"] = argv.cookie[1]
          /\ DOMAIN posts[k].json = {"name", "lcl"}
          /\ posts[k].json.name = TEST_PATTERNS[k].name
          /\ posts[k].json.lcl = TEST_PATTERNS[k].lcl

\* All five records sent, the last with its multi-line lcl text.
C5_Witness ==
    /\ Len(posts) = 5
    /\ posts[1].url = "http://localhost:8080/api/glowblaster/patterns"
    /\ posts[1].headers["Cookie"] = "session=xyz; theme=dark"
    /\ posts[5].json.name = "Red, White, Blue"
    /\ StartsWith(posts[5].json.lcl, "effect: chase\nname: \"Red, White, Blue\"\n\nbehavior:")
    /\ Len(posts[1].json.lcl) = 101 /\ Len(posts[5].json.lcl) = 259

\* C6: individual failures never end the process with a nonzero status: once
\* the command line is parsed the process is never stuck before the tally, it
\* ends only after the tally line with every record attempted, and its exit
\* status is 0 whatever the calls ended in.
C6_AlwaysExitsZero ==
    Parsed =>
       /\ pc \in {"announce", "loop", "await", "done"}
       /\ exit_code \in {<<>>, <<0>>}
       /\ pc # "done" => exit_code = <<>> /\ ENABLED Next
       /\ pc = "done" =>
             /\ exit_code = <<0>>
             /\ Len(responses) = Len(patterns)
             /\ StartsWith(Last(out), "Complete: ")

\* All five records failed, by exception and by rejection, and the process
\* ended with status 0.
C6_Witness ==
    /\ pc = "done" /\ exit_code = <<0>> /\ success_count = 0
    /\ AllFive(LAMBDA o : ~Accepted(o))
    /\ Excepted(responses[1]) /\ Rejected(responses[2])
    /\ Last(out) = "Complete: 0/5 patterns created"

\* The line of a record's outcome, in one of its three forms.
IsOutcomeLine(line, name) ==
    \/ line = "  Created: " \o name
    \/ StartsWith(line, "  Failed: " \o name \o " - ")
    \/ StartsWith(line, "  Error: " \o name \o " - ")

\* C7: execution is strictly sequential: at most one call is outstanding, it is
\* the last one issued, and when the call for record k is issued the answers,
\* the outcome lines and the counter of records 1..k-1 are all in place (and
\* nothing more is printed while the call is awaited).
C7_StrictlySequential ==
    /\ Cardinality(outstanding) <= 1
    /\ outstanding \subseteq {Len(posts)}
    /\ Len(responses) = Len(posts) - Cardinality(outstanding)
    /\ Len(posts) >= 1 =>
          /\ Len(out) >= 2 + Len(responses)
          /\ \A k \in 1..Len(responses) : IsOutcomeLine(LineOf(k), patterns[k].name)
          /\ outstanding # {} => Len(out) = 2 + Len(posts) - 1
          /\ success_count = Successes

\* The third call is awaited: two outcome lines are printed, no more.
C7_Witness ==
    /\ pc = "await" /\ outstanding = {3} /\ Len(posts) = 3
    /\ Len(out) = 4 /\ Len(responses) = 2
    /\ Accepted(responses[2]) /\ success_count = 1

TallyLines == {"Complete: " \o ToString(s) \o "/" \o ToString(n) \o " patterns created" :
                  s \in 0..Len(patterns), n \in {Len(patterns)}}

\* The form of the line for an answer.
FormOf(o) == IF Accepted(o) THEN "  Created: " ELSE IF Rejected(o) THEN "  Failed: " ELSE "  Error: "

\* C8: stdout has a fixed order: the announcement "Seeding <n> test patterns..."
\* before any HTTP call; one outcome line per answered record, in list order,
\* in exactly one of the forms Created / Failed / Error; the tally line last,
\* and only after every record is attempted. (The script prints an empty line
\* after the announcement and another before the tally.)
C8_OutputOrder ==
    /\ posts # <<>> => Len(out) >= 2 /\ out[1] = "Seeding 5 test patterns..." /\ out[2] = ""
    /\ pc \in {"parse", "announce", "usage"} => out = <<>> /\ posts = <<>>
    /\ pc \in {"loop", "await"} => Len(out) = 2 + Len(responses)
    /\ \A k \in 1..Len(responses) :
          /\ Len(out) >= 2 + k
          /\ IsOutcomeLine(LineOf(k), TEST_PATTERNS[k].name)
          /\ StartsWith(LineOf(k), FormOf(responses[k]) \o TEST_PATTERNS[k].name)
    /\ pc # "done" => \A i \in 1..Len(out) : out[i] \notin TallyLines
    /\ pc = "done" =>
          /\ Len(out) = 2 + 5 + 2
          /\ Len(responses) = 5 /\ Len(posts) = 5
          /\ out[8] = ""
          /\ out[9] \in TallyLines
          /\ \A i \in 1..8 : out[i] \notin TallyLines

\* A full run whose lines are Created, Failed and Error ones.
C8_Witness ==
    /\ pc = "done" /\ Len(out) = 9
    /\ out[1] = "Seeding 5 test patterns..."
    /\ out[3] = "  Created: All Red"
    /\ out[4] = "  Failed: All Blue - unauthorized"
    /\ out[5] = "  Error: All Green - Read timed out."
    /\ out[6] = "  Error: All White - 'list' object has no attribute 'get'"
    /\ out[7] = "  Failed: Red, White, Blue - None"
    /\ out[9] = "Complete: 1/5 patterns created"

\* C9 as the spec states it: with an empty list the script prints
\* "Seeding 0 test patterns..." and "0/0 patterns created" and makes no call.
C9_EmptyListAsStated ==
    (patterns = <<>> /\ pc = "done") =>
       /\ posts = <<>>
       /\ \E i \in 1..Len(out) : out[i] = "Seeding 0 test patterns..."
       /\ \E i \in 1..Len(out) : out[i] = "0/0 patterns created"

\* C9, amended: with an empty list the script prints "Seeding 0 test
\* patterns..." and "Complete: 0/0 patterns created" (each followed resp.
\* preceded by an empty line) and makes no HTTP call at any point.
C9_EmptyList ==
    patterns = <<>> =>
       /\ posts = <<>> /\ outstanding = {} /\ responses = <<>>
       /\ pc = "done" =>
             out = <<"Seeding 0 test patterns...", "", "", "Complete: 0/0 patterns created">>

\* The run over the empty list has ended.
C9_Witness ==
    /\ patterns = <<>> /\ pc = "done" /\ exit_code = <<0>>
    /\ posts = <<>> /\ Len(out) = 4

\* The step is the return of a call whose line is the Created one.
CreatedStep ==
    /\ pc = "await" /\ pc' = "loop"
    /\ Len(responses') = Len(responses) + 1
    /\ out' = Append(out, "  Created: " \o patterns[idx].name)

\* C10: the loop keeps 0 <= success_count <= (records attempted) <=
\* len(TEST_PATTERNS); the counter never decreases, grows by at most 1 per
\* record, and grows only on the return of a call that printed "Created" (a
\* failure or an exception leaves it as it is).
C10_CounterInvariant ==
    /\ [](0 <= success_count /\ success_count <= Len(responses)
            /\ Len(responses) <= idx /\ idx <= Len(TEST_PATTERNS))
    /\ [][/\ success_count' >= success_count
          /\ success_count' <= success_count + 1
          /\ success_count' # success_count => CreatedStep
          /\ (Len(responses') > Len(responses) /\ ~Accepted(Last(responses')))
                => success_count' = success_count]_vars

\* The counter is 2 after four answers, two of them failures.
C10_Witness ==
    /\ pc = "loop" /\ Len(responses) = 4 /\ success_count = 2
    /\ Accepted(responses[1]) /\ Rejected(responses[2])
    /\ Excepted(responses[3]) /\ Accepted(responses[4])

====
